---- MODULE Spec2Model ----
(***************************************************************************)
(* A model of redis-cli.go: the read-eval-print loop, the history masking, *)
(* the lazily created connection, the mode switch, the command dispatch    *)
(* and the reply renderers.                                                *)
(*                                                                         *)
(* Text is a sequence of chunks.  A token is a sequence of one-character   *)
(* strings, so that lower-casing, integer parsing and the tokenizer work   *)
(* on characters; a fixed message of the program is one chunk.             *)
(* The store (go-redis) and the line editor (liner) are outside the        *)
(* program: the store's answers are chosen nondeterministically, and       *)
(* `history` is what loadHistory read followed by the arguments of the     *)
(* line.AppendHistory calls, in order.                                     *)
(***************************************************************************)
EXTENDS Integers, Sequences, FiniteSets, TLC

VARIABLES
    pc,           \* "main" | "prompt" (blocked in line.Prompt) | "render" | "done"
    status,       \* "running" | "exited" (os.Exit) | "panicked" (run-time panic)
    exitCode,     \* the argument of os.Exit; read when status = "exited"
    args,         \* flag.Args(): the positional arguments
    outputRaw,    \* the -raw flag
    mode,         \* var mode
    dbn,          \* *dbn
    client,       \* var client: nilClient, or the number of the handle it holds
    created,      \* how many times redis.NewClient was called
    pings,        \* how many times sendPing was called
    connectCalls, \* how many times cliConnect was called
    pingResult,   \* "none" | "ok" | "fail": the outcome of the last sendPing
    requests,     \* every client.Do call, in order: <<cmd, arg, ...>>
    history,      \* the line editor's in-memory history
    histFile,     \* the lines of the history file
    saveCalls,    \* how many times saveHistory ran
    cmds,         \* the tokens of the command line handled last
    reply,        \* the store's answer to the request sent last
    out,          \* what the last step wrote to standard output
    lastOp,       \* which handler ran last
    nLines,       \* how many lines line.Prompt has returned
    level         \* the nesting level handed to the renderer

vars == <<pc, status, exitCode, args, outputRaw, mode, dbn, client, created, pings,
          connectCalls, pingResult, requests, history, histFile, saveCalls, cmds,
          reply, out, lastOp, nLines, level>>

(***************************************************************************)
(* Bounds.                                                                 *)
(***************************************************************************)
MaxLines == 2      \* lines read in one interactive session
MaxWidth == 2      \* elements of a sequence reply
MaxDepth == 2      \* nesting of sequence replies
MaxLevel == 1      \* starting level of a rendering

(***************************************************************************)
(* Program constants.                                                      *)
(***************************************************************************)
stdMode == 0
rawMode == 1
nilClient == 0

(***************************************************************************)
(* strings.ToLower, strings.Join, strings.Repeat, strconv.Atoi, %d, %q.    *)
(***************************************************************************)
UpperChars == <<"A","B","C","D","E","F","G","H","I","J","K","L","M",
                "N","O","P","Q","R","S","T","U","V","W","X","Y","Z">>
LowerChars == <<"a","b","c","d","e","f","g","h","i","j","k","l","m",
                "n","o","p","q","r","s","t","u","v","w","x","y","z">>
DigitChars == <<"0","1","2","3","4","5","6","7","8","9">>

\* unicode.ToLower on the letters A-Z, as a table
LowerOf == [c \in {UpperChars[i] : i \in 1..Len(UpperChars)} |->
               LowerChars[CHOOSE i \in 1..Len(UpperChars) : UpperChars[i] = c]]

ToLowerChar(c) == IF c \in DOMAIN LowerOf THEN LowerOf[c] ELSE c

ToLower(s) == [i \in 1..Len(s) |-> ToLowerChar(s[i])]

UpperOf == [c \in {LowerChars[i] : i \in 1..Len(LowerChars)} |->
               UpperChars[CHOOSE i \in 1..Len(LowerChars) : LowerChars[i] = c]]

ToUpperChar(c) == IF c \in DOMAIN UpperOf THEN UpperOf[c] ELSE c

ToUpper(s) == [i \in 1..Len(s) |-> ToUpperChar(s[i])]

RECURSIVE Join(_, _)
Join(ss, sep) ==
    IF Len(ss) = 0 THEN <<>>
    ELSE IF Len(ss) = 1 THEN ss[1]
    ELSE ss[1] \o sep \o Join(Tail(ss), sep)

Repeat(c, n) == [i \in 1..n |-> c]

DigitOf == [c \in {DigitChars[i] : i \in 1..Len(DigitChars)} |->
               (CHOOSE i \in 1..Len(DigitChars) : DigitChars[i] = c) - 1]

IsDigit(c) == c \in DOMAIN DigitOf
DigitVal(c) == DigitOf[c]

RECURSIVE DigitsVal(_)
DigitsVal(s) ==
    IF Len(s) = 0 THEN 0
    ELSE 10 * DigitsVal(SubSeq(s, 1, Len(s) - 1)) + DigitVal(s[Len(s)])

\* strconv.Atoi with its error dropped, for tokens short enough not to
\* overflow: an optional sign and then digits only, else 0.
Atoi(s) ==
    LET signed == Len(s) > 0 /\ s[1] \in {"-", "+"}
        body   == IF signed THEN Tail(s) ELSE s
    IN  IF Len(body) = 0 \/ \E i \in 1..Len(body) : ~IsDigit(body[i]) THEN 0
        ELSE IF signed /\ s[1] = "-" THEN 0 - DigitsVal(body)
        ELSE DigitsVal(body)

RECURSIVE NatStr(_)
NatStr(n) ==
    IF n < 10 THEN <<DigitChars[n + 1]>>
    ELSE NatStr(n \div 10) \o <<DigitChars[(n % 10) + 1]>>

\* fmt's %d
IntStr(n) == IF n < 0 THEN <<"-">> \o NatStr(0 - n) ELSE NatStr(n)

RECURSIVE Escape(_)
Escape(s) ==
    IF Len(s) = 0 THEN <<>>
    ELSE (IF s[1] \in {"\"", "\\"} THEN <<"\\", s[1]>> ELSE <<s[1]>>) \o Escape(Tail(s))

\* fmt's %q of printable text
Quote(s) == <<"\"">> \o Escape(s) \o <<"\"">>

\* fmt's %-4s: left-justified, padded with spaces to four characters
PadRight4(s) == IF Len(s) < 4 THEN s \o Repeat(" ", 4 - Len(s)) ELSE s

(***************************************************************************)
(* The tokenizer: regexp '.*?'|".*?"|\S+ with FindAllString(cmd, -1).      *)
(***************************************************************************)
IsSpace(c) == c \in {" ", "\t"}

\* the end of the leftmost-first match that starts at i, or 0 when none does
MatchEnd(s, i) ==
    LET closing == {j \in (i + 1)..Len(s) : s[j] = s[i]}
        runEnd  == CHOOSE e \in i..Len(s) :
                       /\ \A k \in i..e : ~IsSpace(s[k])
                       /\ (e = Len(s) \/ IsSpace(s[e + 1]))
        least(S) == CHOOSE j \in S : \A k \in S : j <= k
    IN  IF s[i] \in {"'", "\""} /\ closing # {} THEN least(closing)
        ELSE IF IsSpace(s[i]) THEN 0
        ELSE runEnd

RECURSIVE FindAllFrom(_, _)
FindAllFrom(s, i) ==
    IF i > Len(s) THEN <<>>
    ELSE LET e == MatchEnd(s, i)
         IN  IF e = 0 THEN FindAllFrom(s, i + 1)
             ELSE <<SubSeq(s, i, e)>> \o FindAllFrom(s, e + 1)

FindAllString(s) == FindAllFrom(s, 1)

(***************************************************************************)
(* Reply values: what client.Do(...).Result() hands back, by dynamic type. *)
(* val is the number of an int64, the text of a string, []byte or          *)
(* redis.Error, the elements of a []interface{}, and the %+v text of any   *)
(* other type.                                                             *)
(***************************************************************************)
IntReply(n)   == [type |-> "int64",  val |-> n]
StrReply(s)   == [type |-> "string", val |-> s]
BytesReply(s) == [type |-> "bytes",  val |-> s]
NilReply      == [type |-> "nil",    val |-> <<>>]
ErrReply(s)   == [type |-> "error",  val |-> s]
ArrReply(rs)  == [type |-> "array",  val |-> rs]
OtherReply(s) == [type |-> "other",  val |-> s]

RECURSIVE printStdReply(_, _)
printStdReply(lvl, r) ==
    LET RECURSIVE elems(_)
        elems(i) ==
            IF i > Len(r.val) THEN <<>>
            ELSE (IF i # 1 THEN Repeat(" ", lvl * 4) ELSE <<>>)
                 \o PadRight4(IntStr(i) \o <<")", " ">>)
                 \o printStdReply(lvl + 1, r.val[i])
                 \o (IF i # Len(r.val) THEN <<"\n">> ELSE <<>>)
                 \o elems(i + 1)
    IN  CASE r.type = "int64"  -> <<"(integer) ">> \o IntStr(r.val)
          [] r.type = "string" -> r.val
          [] r.type = "bytes"  -> Quote(r.val)
          [] r.type = "nil"    -> <<"(nil)">>
          [] r.type = "error"  -> <<"(error) ">> \o r.val
          [] r.type = "array"  -> elems(1)
          [] OTHER             -> <<"Unknown reply type: ">> \o r.val

RECURSIVE printRawReply(_, _)
printRawReply(lvl, r) ==
    LET RECURSIVE elems(_)
        elems(i) ==
            IF i > Len(r.val) THEN <<>>
            ELSE (IF i # 1 THEN Repeat(" ", lvl * 4) ELSE <<>>)
                 \o printRawReply(lvl + 1, r.val[i])
                 \o (IF i # Len(r.val) THEN <<"\n">> ELSE <<>>)
                 \o elems(i + 1)
    IN  CASE r.type = "int64"  -> IntStr(r.val)
          [] r.type = "string" -> r.val
          [] r.type = "bytes"  -> r.val
          [] r.type = "nil"    -> <<>>
          [] r.type = "error"  -> r.val \o <<"\n">>
          [] r.type = "array"  -> elems(1)
          [] OTHER             -> <<"Unknown reply type: ">> \o r.val

printReply(lvl, r, m) ==
    CASE m = stdMode -> printStdReply(lvl, r)
      [] m = rawMode -> printRawReply(lvl, r)
      [] OTHER       -> printStdReply(lvl, r)

printInfo(r) ==
    CASE r.type = "bytes" -> r.val
      [] r.type = "error" -> <<"(error) ">> \o r.val
      [] OTHER            -> <<>>

(***************************************************************************)
(* The handlers, as functions of the state they read.                      *)
(***************************************************************************)
Mask == <<"*","*","*","*","*","*">>

\* appendHistory comparing the first token without lower-casing it
appendHistoryCaseSensitive(hist, cs) ==
    LET c1 == IF Len(cs) = 2 /\ cs[1] = <<"a","u","t","h">>
              THEN [cs EXCEPT ![2] = Mask] ELSE cs
        c2 == IF Len(c1) = 4 /\ c1[1] = <<"c","o","n","n","e","c","t">>
              THEN [c1 EXCEPT ![4] = Mask] ELSE c1
    IN  Append(hist, Join(c2, <<" ">>))

\* appendHistory: the history after line.AppendHistory(strings.Join(cloneCmds, " "))
appendHistory(hist, cs) ==
    LET c1 == IF Len(cs) = 2 /\ ToLower(cs[1]) = <<"a","u","t","h">>
              THEN [cs EXCEPT ![2] = Mask] ELSE cs
        c2 == IF Len(c1) = 4 /\ ToLower(c1[1]) = <<"c","o","n","n","e","c","t">>
              THEN [c1 EXCEPT ![4] = Mask] ELSE c1
    IN  Append(hist, Join(c2, <<" ">>))

PingErrMsg == <<"dial tcp 127.0.0.1:6379: connect: connection refused">>

\* sendPing: what it prints; it returns the error unchanged
sendPing(pingOk) == IF pingOk THEN <<>> ELSE PingErrMsg \o <<"\n">>

\* cliConnect without the test for an existing client
cliConnectAlways(conn, pingOk) ==
    [client     |-> conn.created + 1,
     created    |-> conn.created + 1,
     pings      |-> conn.pings + 1,
     pingResult |-> IF pingOk THEN "ok" ELSE "fail",
     out        |-> sendPing(pingOk),
     exit       |-> ~pingOk]

\* cliConnect going on after a failed ping
cliConnectIgnorePing(conn, pingOk) ==
    IF conn.client = nilClient
    THEN [client     |-> conn.created + 1,
          created    |-> conn.created + 1,
          pings      |-> conn.pings + 1,
          pingResult |-> IF pingOk THEN "ok" ELSE "fail",
          out        |-> sendPing(pingOk),
          exit       |-> FALSE]
    ELSE [client     |-> conn.client,
          created    |-> conn.created,
          pings      |-> conn.pings,
          pingResult |-> conn.pingResult,
          out        |-> <<>>,
          exit       |-> FALSE]

\* cliConnect on the connection state conn = [client, created, pings, pingResult];
\* exit says that it ended the process with os.Exit(1)
cliConnect(conn, pingOk) ==
    IF conn.client = nilClient
    THEN [client     |-> conn.created + 1,
          created    |-> conn.created + 1,
          pings      |-> conn.pings + 1,
          pingResult |-> IF pingOk THEN "ok" ELSE "fail",
          out        |-> sendPing(pingOk),
          exit       |-> ~pingOk]
    ELSE [client     |-> conn.client,
          created    |-> conn.created,
          pings      |-> conn.pings,
          pingResult |-> conn.pingResult,
          out        |-> <<>>,
          exit       |-> FALSE]

UsageMsg == <<"invalid args. Should be MODE [raw|std]", "\n">>

\* switchMode comparing its argument without lower-casing it
switchModeCaseSensitive(m, a) ==
    IF Len(a) # 1 THEN [mode |-> m, out |-> UsageMsg]
    ELSE LET w == a[1]
         IN  IF w # <<"r","a","w">> /\ w # <<"s","t","d">>
             THEN [mode |-> m, out |-> UsageMsg]
             ELSE IF w = <<"s","t","d">> THEN [mode |-> stdMode, out |-> <<>>]
             ELSE [mode |-> rawMode, out |-> <<>>]

\* switchMode: the mode afterwards and what it prints
switchMode(m, a) ==
    IF Len(a) # 1 THEN [mode |-> m, out |-> UsageMsg]
    ELSE LET w == ToLower(a[1])
         IN  IF w # <<"r","a","w">> /\ w # <<"s","t","d">>
             THEN [mode |-> m, out |-> UsageMsg]
             ELSE IF w = <<"s","t","d">> THEN [mode |-> stdMode, out |-> <<>>]
             ELSE [mode |-> rawMode, out |-> <<>>]

\* the select test without err == nil
selectSucceededAnyway(ok, cmd) == ToLower(cmd) = <<"s","e","l","e","c","t">>

\* the condition under which cliSendCommand assigns *dbn
selectSucceeded(ok, cmd) == ok /\ ToLower(cmd) = <<"s","e","l","e","c","t">>

\* client.Do(ctx, cmd, arg): the command name and the arguments handed over
doRequest(cs) == <<ToLower(cs[1]), <<>>>>

\* cliSendCommand on the tokens cs, with the store answering r = [ok, val, msg]
\* (err == nil, the reply, err.Error()).  end is "exit1" (os.Exit(1) in
\* cliConnect), "panic" (cmds[1] out of range) or "return"; sent holds the
\* request made, if any.
cliSendCommand(cs, conn, d, m, pingOk, r) ==
    LET c == cliConnect(conn, pingOk)
    IN  IF c.exit
        THEN [conn |-> c, end |-> "exit1", sent |-> <<>>, dbn |-> d, out |-> c.out, ret |-> 0]
        ELSE IF Len(cs) = 0
        THEN [conn |-> c, end |-> "return", sent |-> <<>>, dbn |-> d, out |-> c.out, ret |-> 0]
        ELSE LET cmd == ToLower(cs[1])
                 req == <<doRequest(cs)>>
             IN  IF selectSucceeded(r.ok, cmd) /\ Len(cs) < 2
                 THEN [conn |-> c, end |-> "panic", sent |-> req, dbn |-> d,
                       out |-> c.out, ret |-> 0]
                 ELSE LET d2 == IF selectSucceeded(r.ok, cmd) THEN Atoi(cs[2]) ELSE d
                      IN  IF ~r.ok
                          THEN [conn |-> c, end |-> "return", sent |-> req, dbn |-> d2,
                                out |-> c.out \o <<"(error) ">> \o r.msg \o <<"\n">>,
                                ret |-> -1]
                          ELSE [conn |-> c, end |-> "return", sent |-> req, dbn |-> d2,
                                out |-> c.out
                                        \o (IF cmd = <<"i","n","f","o">>
                                            THEN printInfo(r.val)
                                            ELSE printReply(0, r.val, m))
                                        \o <<"\n">>,
                                ret |-> 0]

CreateErrMsg == <<"open .gorediscli_history: permission denied">>

\* saveHistory: the file afterwards and what it prints
saveHistory(hist, file, createOk) ==
    IF createOk THEN [file |-> hist, out |-> <<>>]
    ELSE [file |-> file, out |-> <<"Error writing history file: ">> \o CreateErrMsg]

\* the help table: name, usage, group
helpCommands ==
    << <<<<"G","E","T">>, <<"key">>, <<"string">>>>,
       <<<<"S","E","L","E","C","T">>, <<"index">>, <<"connection">>>> >>

GenericHelpMsg == <<"redis-cli\nType:\t\"help <command>\" for help on <command>\n\t", "\n">>

printCommandHelp(arr) ==
    <<"\n", "\t">> \o arr[1] \o <<" ">> \o arr[2] \o <<" \n", "\tGroup: ">> \o arr[3]
    \o <<" \n", "\n">>

printHelp(cs) ==
    LET a == Tail(cs)
        RECURSIVE scan(_)
        scan(i) ==
            IF i > Len(helpCommands) THEN <<>>
            ELSE (IF helpCommands[i][1] = ToUpper(a[1])
                  THEN printCommandHelp(helpCommands[i]) ELSE <<>>) \o scan(i + 1)
    IN  IF Len(a) = 0 THEN GenericHelpMsg
        ELSE IF Len(a) > 1 THEN <<"\n">>
        ELSE scan(1)

(***************************************************************************)
(* Inputs: the lines typed at the prompt, the positional arguments, the    *)
(* store's answers, the flags and the history file found at start.         *)
(***************************************************************************)
Lines ==
    { <<" "," ">>,
      <<"A","u","t","h"," ","p","w">>,  \* Auth pw
      <<"a","u","t","h"," ","u"," ","p","w">>,  \* auth u pw
      <<"c","o","n","n","e","c","t"," ","h"," ","7"," ","p","w">>,  \* connect h 7 pw
      <<"s","e","l","e","c","t">>,  \* select
      <<"S","e","l","e","c","t"," ","7">>,  \* Select 7
      <<"s","e","l","e","c","t"," ","x","y","z">>,  \* select xyz
      <<"m","o","d","e">>,  \* mode
      <<"m","o","d","e"," ","R","a","w">>,  \* mode Raw
      <<"M","O","D","E"," "," ","s","t","d">>,  \* MODE  std
      <<"m","o","d","e"," ","x","y","z">>,  \* mode xyz
      <<"m","o","d","e"," ","r","a","w"," ","s","t","d">>,  \* mode raw std
      <<"q","u","i","t">>,  \* quit
      <<"E","x","i","t">>,  \* Exit
      <<"?"," ","g","e","t">>,  \* ? get
      <<"c","l","e","a","r">>,  \* clear
      <<"i","n","f","o">>,  \* info
      <<"g","e","t"," ","'","a"," ","b","'">> }  \* get 'a b'

ArgLines ==
    { <<>>,
      <<<<"g","e","t">>, <<"k">>>>,
      <<<<"S","e","l","e","c","t">>>>,
      <<<<"s","e","l","e","c","t">>, <<"7">>>>,
      <<<<"s","e","t">>, <<"k">>, <<"7">>>>,
      <<<<"i","n","f","o">>>> }

Outcome(ok, val, msg) == [ok |-> ok, val |-> val, msg |-> msg]
NoOutcome == Outcome(TRUE, NilReply, <<>>)

Outcomes ==
    { Outcome(TRUE, IntReply(1), <<>>),
      Outcome(TRUE, StrReply(<<"O","K">>), <<>>),
      Outcome(FALSE, NilReply, <<"ERR unknown command">>) }

DbnFlags == {0, 3}

HistFiles == {<<>>, << <<"p","i","n","g">> >>}

Scalars ==
    { IntReply(7), StrReply(<<"t","w","o">>), BytesReply(<<"a","\"","b">>), NilReply,
      ErrReply(<<"ERR x">>), OtherReply(<<"3.5">>) }

RECURSIVE RepliesOfDepth(_)
RepliesOfDepth(d) ==
    IF d = 0 THEN Scalars
    ELSE LET below == RepliesOfDepth(d - 1)
         IN  Scalars \cup
             { ArrReply(s) : s \in UNION { [1..n -> below] : n \in 0..MaxWidth } }

(***************************************************************************)
(* The program.                                                            *)
(***************************************************************************)
Conn == [client |-> client, created |-> created, pings |-> pings,
         pingResult |-> pingResult]

SetConn(c) ==
    /\ client' = c.client
    /\ created' = c.created
    /\ pings' = c.pings
    /\ pingResult' = c.pingResult
    /\ connectCalls' = connectCalls + 1

Init ==
    /\ pc = "main"
    /\ status = "running"
    /\ exitCode = 0
    /\ args \in ArgLines
    /\ outputRaw \in BOOLEAN
    /\ mode = stdMode
    /\ dbn \in DbnFlags
    /\ client = nilClient
    /\ created = 0
    /\ pings = 0
    /\ connectCalls = 0
    /\ pingResult = "none"
    /\ requests = <<>>
    /\ history = <<>>
    /\ histFile \in HistFiles
    /\ saveCalls = 0
    /\ cmds = <<>>
    /\ reply = NoOutcome
    /\ out = <<>>
    /\ lastOp = "init"
    /\ nLines = 0
    /\ level = 0

\* main with no positional argument, up to the first prompt of repl:
\* loadHistory, then cliConnect.  os.Exit(1) runs no deferred call.
MainRepl(pingOk) ==
    /\ pc = "main"
    /\ Len(args) = 0
    /\ mode' = (IF outputRaw THEN rawMode ELSE stdMode)
    /\ history' = histFile
    /\ LET c == cliConnect(Conn, pingOk)
       IN  /\ SetConn(c)
           /\ out' = c.out
           /\ IF c.exit
              THEN pc' = "done" /\ status' = "exited" /\ exitCode' = 1
              ELSE pc' = "prompt" /\ UNCHANGED <<status, exitCode>>
    /\ lastOp' = "repl"
    /\ UNCHANGED <<args, outputRaw, dbn, requests, histFile, saveCalls, cmds, reply,
                   nLines, level>>

\* main with positional arguments: os.Exit(noninteractive(flag.Args()))
MainNoninteractive(pingOk, r) ==
    /\ pc = "main"
    /\ Len(args) > 0
    /\ mode' = (IF outputRaw THEN rawMode ELSE stdMode)
    /\ LET s == cliSendCommand(args, Conn, dbn, mode', pingOk, r)
       IN  /\ SetConn(s.conn)
           /\ requests' = requests \o s.sent
           /\ reply' = (IF s.sent # <<>> THEN r ELSE reply)
           /\ dbn' = s.dbn
           /\ out' = s.out
           /\ CASE s.end = "exit1"  -> status' = "exited" /\ exitCode' = 1
                [] s.end = "panic"  -> status' = "panicked" /\ exitCode' = exitCode
                [] s.end = "return" -> status' = "exited" /\ exitCode' = s.ret
    /\ pc' = "done"
    /\ cmds' = args
    /\ lastOp' = "noninteractive"
    /\ UNCHANGED <<args, outputRaw, history, histFile, saveCalls, nLines, level>>

\* reg.FindAllString(cmd, -1) of every line, computed once
Tokens == [l \in Lines |-> FindAllString(l)]

Reading(l) ==
    /\ pc = "prompt"
    /\ nLines < MaxLines
    /\ nLines' = nLines + 1
    /\ cmds' = Tokens[l]

FirstIs(l, names) == Len(Tokens[l]) > 0 /\ ToLower(Tokens[l][1]) \in names

HelpNames  == {<<"h","e","l","p">>, <<"?">>}
QuitNames  == {<<"q","u","i","t">>, <<"e","x","i","t">>}
ClearNames == {<<"c","l","e","a","r">>}
ModeNames  == {<<"m","o","d","e">>}
LocalNames == HelpNames \cup QuitNames \cup ClearNames \cup ModeNames

\* a line without a token: the loop continues
ReplEmpty(l) ==
    /\ Reading(l)
    /\ Len(Tokens[l]) = 0
    /\ out' = <<>>
    /\ lastOp' = "empty"
    /\ UNCHANGED <<pc, status, exitCode, args, outputRaw, mode, dbn, client, created,
                   pings, connectCalls, pingResult, requests, history, histFile,
                   saveCalls, reply, level>>

ReplHelp(l) ==
    /\ Reading(l)
    /\ FirstIs(l, HelpNames)
    /\ history' = appendHistory(history, Tokens[l])
    /\ out' = printHelp(Tokens[l])
    /\ lastOp' = "help"
    /\ UNCHANGED <<pc, status, exitCode, args, outputRaw, mode, dbn, client, created,
                   pings, connectCalls, pingResult, requests, histFile, saveCalls,
                   reply, level>>

\* quit, exit: os.Exit(0) inside the loop; the deferred saveHistory does not run
ReplQuit(l) ==
    /\ Reading(l)
    /\ FirstIs(l, QuitNames)
    /\ history' = appendHistory(history, Tokens[l])
    /\ out' = <<>>
    /\ pc' = "done"
    /\ status' = "exited"
    /\ exitCode' = 0
    /\ lastOp' = "quit"
    /\ UNCHANGED <<args, outputRaw, mode, dbn, client, created, pings, connectCalls,
                   pingResult, requests, histFile, saveCalls, reply, level>>

\* clear: the hint goes to standard error (println)
ReplClear(l) ==
    /\ Reading(l)
    /\ FirstIs(l, ClearNames)
    /\ history' = appendHistory(history, Tokens[l])
    /\ out' = <<>>
    /\ lastOp' = "clear"
    /\ UNCHANGED <<pc, status, exitCode, args, outputRaw, mode, dbn, client, created,
                   pings, connectCalls, pingResult, requests, histFile, saveCalls,
                   reply, level>>

ReplMode(l) ==
    /\ Reading(l)
    /\ FirstIs(l, ModeNames)
    /\ history' = appendHistory(history, Tokens[l])
    /\ LET s == switchMode(mode, Tail(Tokens[l]))
       IN  mode' = s.mode /\ out' = s.out
    /\ lastOp' = "mode"
    /\ UNCHANGED <<pc, status, exitCode, args, outputRaw, dbn, client, created, pings,
                   connectCalls, pingResult, requests, histFile, saveCalls, reply,
                   level>>

\* any other line: cliSendCommand(cmds).  A panic unwinds repl, so the
\* deferred saveHistory runs before the process dies.
ReplSend(l, pingOk, r, createOk) ==
    /\ Reading(l)
    /\ Len(Tokens[l]) > 0
    /\ ~FirstIs(l, LocalNames)
    /\ history' = appendHistory(history, Tokens[l])
    /\ LET s == cliSendCommand(Tokens[l], Conn, dbn, mode, pingOk, r)
           f == saveHistory(history', histFile, createOk)
       IN  /\ SetConn(s.conn)
           /\ requests' = requests \o s.sent
           /\ reply' = (IF s.sent # <<>> THEN r ELSE reply)
           /\ dbn' = s.dbn
           /\ CASE s.end = "exit1" ->
                     /\ pc' = "done" /\ status' = "exited" /\ exitCode' = 1
                     /\ out' = s.out
                     /\ UNCHANGED <<histFile, saveCalls>>
                [] s.end = "panic" ->
                     /\ pc' = "done" /\ status' = "panicked" /\ exitCode' = exitCode
                     /\ out' = s.out \o f.out
                     /\ histFile' = f.file
                     /\ saveCalls' = saveCalls + 1
                [] s.end = "return" ->
                     /\ out' = s.out
                     /\ UNCHANGED <<pc, status, exitCode, histFile, saveCalls>>
    /\ lastOp' = "send"
    /\ UNCHANGED <<args, outputRaw, mode, level>>

PromptErrMsg == <<"EOF">>

\* line.Prompt fails (end of input, or Ctrl-C): repl returns, its deferred
\* saveHistory runs, and main goes on to os.Exit(noninteractive(flag.Args()))
\* with no argument.
ReplEOF(pingOk, createOk) ==
    /\ pc = "prompt"
    /\ LET f == saveHistory(history, histFile, createOk)
           s == cliSendCommand(args, Conn, dbn, mode, pingOk, NoOutcome)
       IN  /\ histFile' = f.file
           /\ saveCalls' = saveCalls + 1
           /\ SetConn(s.conn)
           /\ requests' = requests \o s.sent
           /\ dbn' = s.dbn
           /\ out' = PromptErrMsg \o <<"\n">> \o f.out \o s.out
           /\ exitCode' = (IF s.end = "exit1" THEN 1 ELSE s.ret)
    /\ pc' = "done"
    /\ status' = "exited"
    /\ lastOp' = "eof"
    /\ UNCHANGED <<args, outputRaw, mode, history, cmds, reply, nLines, level>>

Next ==
    \/ \E pingOk \in BOOLEAN : MainRepl(pingOk)
    \/ \E pingOk \in BOOLEAN, r \in Outcomes : MainNoninteractive(pingOk, r)
    \/ \E l \in Lines : ReplEmpty(l)
    \/ \E l \in Lines : ReplHelp(l)
    \/ \E l \in Lines : ReplQuit(l)
    \/ \E l \in Lines : ReplClear(l)
    \/ \E l \in Lines : ReplMode(l)
    \/ \E l \in Lines, pingOk \in BOOLEAN, r \in Outcomes, createOk \in BOOLEAN :
           ReplSend(l, pingOk, r, createOk)
    \/ \E pingOk \in BOOLEAN, createOk \in BOOLEAN : ReplEOF(pingOk, createOk)

Spec == Init /\ [][Next]_vars

(***************************************************************************)
(* The renderer on its own: printReply on every reply of bounded depth and *)
(* width, at every starting level, in both modes.                          *)
(***************************************************************************)
InitRender ==
    /\ pc = "render"
    /\ status = "running"
    /\ exitCode = 0
    /\ args = <<>>
    /\ outputRaw \in BOOLEAN
    /\ mode = (IF outputRaw THEN rawMode ELSE stdMode)
    /\ dbn = 0
    /\ client = nilClient
    /\ created = 0
    /\ pings = 0
    /\ connectCalls = 0
    /\ pingResult = "none"
    /\ requests = <<>>
    /\ history = <<>>
    /\ histFile = <<>>
    /\ saveCalls = 0
    /\ cmds = <<>>
    /\ reply \in {Outcome(TRUE, v, <<>>) : v \in RepliesOfDepth(MaxDepth)}
    /\ out = <<>>
    /\ lastOp = "init"
    /\ nLines = 0
    /\ level \in 0..MaxLevel

PrintReply ==
    /\ pc = "render"
    /\ out' = printReply(level, reply.val, mode)
    /\ pc' = "done"
    /\ lastOp' = "printReply"
    /\ UNCHANGED <<status, exitCode, args, outputRaw, mode, dbn, client, created, pings,
                   connectCalls, pingResult, requests, history, histFile, saveCalls,
                   cmds, reply, nLines, level>>

NextRender == PrintReply

SpecRender == InitRender /\ [][NextRender]_vars

(***************************************************************************)
(* Properties.                                                             *)
(***************************************************************************)
Last(s) == s[Len(s)]

\* the last step was a cliSendCommand that reached client.Do
Forwarded ==
    /\ lastOp \in {"send", "noninteractive"}
    /\ pingResult = "ok"
    /\ Len(cmds) > 0
    /\ Len(requests) > 0

FirstToken == ToLower(cmds[1])

\* C1: a client handle is created and a ping is issued at most once per
\* process; while a handle exists it is the one created first, however many
\* times cliConnect has been called.
C1_ConnectOnce ==
    /\ created <= 1
    /\ pings <= 1
    /\ pings = created
    /\ (client = nilClient) = (created = 0)
    /\ (client # nilClient => client = 1)

\* cliConnect has run three times (repl, two forwarded lines) on one handle
C1_Reused == connectCalls >= 3 /\ created = 1 /\ pings = 1 /\ client = 1

\* C2: after a failed liveness probe the process has exited with status 1
\* and no command request has been sent to the store.
C2_PingFailureExits ==
    pingResult = "fail" =>
        /\ pc = "done"
        /\ status = "exited"
        /\ exitCode = 1
        /\ requests = <<>>

\* the probe failed in the interactive entry
C2_ReplPingFailed == pingResult = "fail" /\ lastOp = "repl" /\ status = "exited"

C3_Entry(cs) ==
    IF Len(cs) = 2 /\ ToLower(cs[1]) = <<"a","u","t","h">>
    THEN Join(<<cs[1], Mask>>, <<" ">>)
    ELSE IF Len(cs) = 4 /\ ToLower(cs[1]) = <<"c","o","n","n","e","c","t">>
    THEN Join(<<cs[1], cs[2], cs[3], Mask>>, <<" ">>)
    ELSE Join(cs, <<" ">>)

\* C3: the entry appended for a non-empty line is its tokens joined by single
\* spaces, with the second token of a two-token auth line, and the fourth
\* token of a four-token connect line, replaced by ******.
C3_HistoryMasked ==
    lastOp \in {"help", "quit", "clear", "mode", "send"} =>
        /\ Len(cmds) > 0
        /\ Len(history) > 0
        /\ Last(history) = C3_Entry(cmds)

\* "Auth pw" was entered and stored as "Auth ******"
C3_AuthMasked ==
    /\ lastOp = "send"
    /\ cmds = << <<"A","u","t","h">>, <<"p","w">> >>
    /\ Last(history) = <<"A","u","t","h"," ","*","*","*","*","*","*">>

\* C4: when the interactive session has ended, by end of input or by quit or
\* exit, saveHistory has run.
C4_SavedOnEveryExit ==
    (status = "exited" /\ lastOp \in {"eof", "quit"}) => saveCalls >= 1

C5_Valid(a) == Len(a) = 1 /\ ToLower(a[1]) \in {<<"r","a","w">>, <<"s","t","d">>}

C5_Step ==
    (lastOp' = "mode" /\ nLines' = nLines + 1) =>
        LET a == Tail(cmds')
        IN  IF C5_Valid(a)
            THEN /\ mode' = (IF ToLower(a[1]) = <<"r","a","w">> THEN rawMode ELSE stdMode)
                 /\ out' = <<>>
            ELSE /\ mode' = mode
                 /\ out' = UsageMsg

C5_Rendered ==
    (lastOp = "send" /\ status = "running" /\ reply.ok /\ Len(requests) > 0
        /\ FirstToken # <<"i","n","f","o">>) =>
        out = (IF mode = rawMode THEN printRawReply(0, reply.val)
               ELSE printStdReply(0, reply.val)) \o <<"\n">>

\* C5: a mode line with exactly one argument equal, case-insensitively, to raw
\* or std sets the mode to it and prints nothing; any other mode line prints
\* the usage error and leaves the mode as it was; a reply is rendered in the
\* mode in force.
C5_ModeSwitch == [][C5_Step]_vars /\ []C5_Rendered

\* started in standard mode, switched to raw, and an integer reply came out bare
C5_RawAfterSwitch ==
    /\ ~outputRaw
    /\ mode = rawMode
    /\ lastOp = "send"
    /\ reply = Outcome(TRUE, IntReply(1), <<>>)
    /\ out = <<"1", "\n">>

\* C6: after a forwarded select line that the store answered without error,
\* the REPL is prompting again and the selected database is the integer
\* parsed from the second token (0 when it does not parse), whatever the
\* number of tokens of the line.
C6_SelectUpdatesDb ==
    (Forwarded /\ lastOp = "send" /\ reply.ok /\ FirstToken = <<"s","e","l","e","c","t">>) =>
        /\ pc = "prompt"
        /\ status = "running"
        /\ (Len(cmds) >= 2 => dbn = Atoi(cmds[2]))

\* C7: a non-interactive invocation that got through the probe has sent one
\* request and exited with 0 when the store answered without error and with
\* -1 when the store reported an error.
C7_NoninteractiveExit ==
    (lastOp = "noninteractive" /\ pingResult = "ok") =>
        /\ Len(requests) = 1
        /\ status = "exited"
        /\ (reply.ok => exitCode = 0)
        /\ (~reply.ok => exitCode = -1)

\* C8: the request made for a forwarded line is the lower-cased first token
\* followed by every remaining token, in order.
C8_AllTokensSent ==
    Forwarded => Last(requests) = <<FirstToken>> \o Tail(cmds)

RECURSIVE C9_Std(_, _)
C9_Std(lvl, r) ==
    LET RECURSIVE elems(_)
        elems(i) ==
            IF i > Len(r.val) THEN <<>>
            ELSE (IF i # 1 THEN Repeat(" ", 4 * lvl) ELSE <<>>)
                 \o PadRight4(IntStr(i) \o <<")", " ">>)
                 \o C9_Std(lvl + 1, r.val[i])
                 \o (IF i < Len(r.val) THEN <<"\n">> ELSE <<>>)
                 \o elems(i + 1)
    IN  CASE r.type = "int64"  -> <<"(integer) ">> \o IntStr(r.val)
          [] r.type = "string" -> Quote(r.val)
          [] r.type = "bytes"  -> Quote(r.val)
          [] r.type = "nil"    -> <<"(nil)">>
          [] r.type = "error"  -> <<"(error) ">> \o r.val
          [] r.type = "array"  -> elems(1)
          [] OTHER             -> <<"Unknown reply type: ">> \o r.val

\* C9: in standard mode the output is that of the specified renderer: an
\* integer as (integer) N, a byte string and a text string quoted, nil as
\* (nil), an error as (error) <message>, a sequence at level L as a numbered
\* list of its elements rendered at level L+1, each but the first preceded by
\* 4*L spaces, with a newline between consecutive elements.
C9_StdAsSpecified ==
    (lastOp = "printReply" /\ mode = stdMode) => out = C9_Std(level, reply.val)

C10_Step ==
    (pc = "prompt" /\ lastOp' = "send" /\ nLines' = nLines + 1
        /\ Len(requests') = Len(requests) + 1 /\ ~reply'.ok) =>
        /\ out' = <<"(error) ">> \o reply'.msg \o <<"\n">>
        /\ mode' = mode
        /\ dbn' = dbn
        /\ client' = client
        /\ status' = "running"
        /\ pc' = "prompt"

\* C10: a store-reported error on a line forwarded from the REPL is printed
\* after (error), leaves the mode, the selected database and the client
\* handle as they were, and the REPL prompts again.
C10_ErrorAbsorbed == [][C10_Step]_vars

\* a select line was refused by the store and the REPL is prompting again
C10_SelectRefused ==
    /\ lastOp = "send"
    /\ pc = "prompt"
    /\ ~reply.ok
    /\ Len(cmds) = 2
    /\ FirstToken = <<"s","e","l","e","c","t">>
    /\ out = <<"(error) ", "ERR unknown command", "\n">>

====
